---- MODULE Spec2Model ----
(***************************************************************************)
(* promise-cachify: the CacheHandler of src/index.ts (lines 176-586) as a  *)
(* state machine, and its key derivation (generateKey, transformKey,       *)
(* getCacheKey) as operators.                                              *)
(*                                                                         *)
(* The specifications:                                                    *)
(*   SpecKey      the key derivation applied to bounded argument tuples;   *)
(*   Spec         one CacheHandler with no maxAge and no persist, driven   *)
(*                by its public operations and the settling of its tasks;  *)
(*   SpecFalsy    the same handler given the empty string as argument and  *)
(*                key, with a producer that may resolve with undefined;    *)
(*   SpecAge      a handler with maxAge = 1, and the clock;                *)
(*   SpecAgeFair  SpecAge with a fair clock and every task settling;       *)
(*   SpecAgeFalsy the handler with maxAge = 1 given the empty string key;  *)
(*   SpecPersist  a handler with persist, and its deferred writes;         *)
(*   SpecIso      a handler and a caller that changes what it received;    *)
(*   SpecLoad     handlers constructed over a storage written earlier;     *)
(*   SpecDefaults handlers constructed while setDefaults is called;        *)
(*   SpecReload   a handler that persists and the handlers after a reload; *)
(*   SpecLoadAge  handlers with maxAge = 1 loading pairs with an expire.   *)
(***************************************************************************)
EXTENDS Integers, Sequences, FiniteSets, TLC

VARIABLES
    kPhase,     \* SpecKey: "idle" | "input" | "derived" | "permuted" | "stringified" | "spoiled" | "custom"
    kArgs,      \* SpecKey: the argument tuple given to getCacheKey
    kKey,       \* SpecKey: getCacheKey(kArgs)
    kArgs2,     \* SpecKey: a second tuple, related to kArgs as kPhase says
    kKey2,      \* SpecKey: getCacheKey(kArgs2)
    config,     \* this._config: [maxAge, key, name, debug, persistMedia], and persist: this._persist is set
    now,        \* Date.now(), in milliseconds
    cacheMap,   \* this._cacheMap: key -> [expire, data]; data names the task whose cacheData it is
    tasks,      \* the tasks given to do's callers and to set: [key, reg, src, st, v, seen]
    calls,      \* the do calls made so far: [args, key, kind, task, hasAfter, inFlight, live]
    storage,    \* the storage slot of the handler: [exists, items]
    pending,    \* snapshots of _persistCache waiting for the data of their entries
    queue,      \* snapshots whose data is complete, not yet written by setItem
    unhandled,  \* a promise of _persistCache was rejected with no handler
    regAt,      \* key -> Date.now() when set last registered it
    removed,    \* the keys clear, clearAll or a rejection removed since set last registered them
    defaults,   \* DefaultConfig: [maxAge, debug, persistMedia]
    registry,   \* UsedPersistKeys
    slots,      \* the storage slots other than the handler's: <<medium, identifier>> -> slot
    log,        \* the diagnostics the constructor of the handler logged
    built,      \* the handlers constructed so far: [name, opts, defs, enabled, reload]
    held        \* the object a caller holds: where it came from, its content, the tasks given it

kvars == <<kPhase, kArgs, kKey, kArgs2, kKey2>>

xvars == <<defaults, registry, slots, log, built, held>>

hvars == <<config, now, cacheMap, tasks, calls, storage, pending, queue, unhandled, regAt, removed,
           defaults, registry, slots, log, built, held>>

vars == <<kPhase, kArgs, kKey, kArgs2, kKey2,
          config, now, cacheMap, tasks, calls, storage, pending, queue, unhandled, regAt, removed,
          defaults, registry, slots, log, built, held>>

-----------------------------------------------------------------------------
(* Bounds of the model.                                                    *)
MaxArgs == 2        \* arguments of one call
MaxProps == 3       \* properties of one record argument
MaxItems == 2       \* elements of one array argument
MaxCalls == 2       \* calls of do
MaxSets == 1        \* calls of set
MaxWrites == 1      \* snapshots an operation may leave waiting or unwritten
MaxPeriods == 1     \* the clock stops here
MaxBuilds == 3      \* handlers constructed

\* milliseconds per second of maxAge
MsPerSec == 1000

-----------------------------------------------------------------------------
(* JavaScript values.  Every value is a record of the same four fields:    *)
(*   t      its kind: "string" "number" "boolean" "null" "undefined"       *)
(*          "Object" (plain object) "Array" "Map" "function" "Error"       *)
(*   s      String(value) for a primitive                                  *)
(*   props  the own enumerable properties of a plain object, in insertion  *)
(*          order: a sequence of [name, val]                               *)
(*   items  the elements of an array                                       *)
JSVal(t, s) == [t |-> t, s |-> s, props |-> <<>>, items |-> <<>>]
Str(s) == JSVal("string", s)
Num(s) == JSVal("number", s)
Bool(s) == JSVal("boolean", s)
Null == JSVal("null", "null")
Undef == JSVal("undefined", "undefined")
NaNVal == JSVal("number", "NaN")
MapObj == JSVal("Map", "[object Map]")
FuncObj == JSVal("function", "function")
Obj(props) == [t |-> "Object", s |-> "[object Object]", props |-> props, items |-> <<>>]
Arr(items) == [t |-> "Array", s |-> "", props |-> <<>>, items |-> items]
Prop(n, v) == [name |-> n, val |-> v]

\* typeof value
TypeOf(v) ==
    CASE v.t \in {"string", "number", "boolean", "undefined", "function", "bigint"} -> v.t
      [] OTHER -> "object"

\* the absent key (null) and a string key: a sequence of at most one string
NullKey == <<>>
Key(s) == <<s>>

DefaultKey == "__INTERNAL_USE__"

isPlainObject(target) == target.t \in {"Object"}

isString(target) == TypeOf(target) = "string"

isArray(target) == target.t = "Array"

isBadKeySegment(value) ==
    IF value.t \in {"null", "undefined"}
    THEN FALSE
    ELSE TypeOf(value) \notin {"string", "number", "boolean"}

\* transformKey returns a string or null
transformKeyNoMarker(key) ==
    IF TypeOf(key) = "string" THEN Key(key.s)
    ELSE IF isBadKeySegment(key) THEN NullKey ELSE Key(key.s)

transformKey(key) ==
    IF TypeOf(key) = "string" THEN Key(key.s)
    ELSE IF isBadKeySegment(key) THEN NullKey ELSE Key("$-" \o key.s)

\* `${x}` of a string-or-null
Interp(k) == IF k = NullKey THEN "null" ELSE k[1]

\* Array.prototype.join
RECURSIVE Join(_, _)
Join(segs, sep) ==
    IF Len(segs) = 0 THEN ""
    ELSE IF Len(segs) = 1 THEN segs[1]
    ELSE segs[1] \o sep \o Join(Tail(segs), sep)

\* The property names of the model in ascending code-unit order: the order
\* Array.prototype.sort() puts them in.
PropOrder == <<"age", "d", "id", "name">>
Rank(n) == CHOOSE i \in 1..Len(PropOrder) : PropOrder[i] = n

\* insert a name into a sorted sequence of names
RECURSIVE InsertSorted(_, _)
InsertSorted(n, sorted) ==
    IF Len(sorted) = 0 THEN <<n>>
    ELSE IF Rank(n) <= Rank(sorted[1]) THEN <<n>> \o sorted
    ELSE <<sorted[1]>> \o InsertSorted(n, Tail(sorted))

\* objKeys.sort()
RECURSIVE SortNames(_)
SortNames(names) ==
    IF Len(names) = 0 THEN <<>>
    ELSE InsertSorted(names[1], SortNames(Tail(names)))

\* Object.keys(o), Object.values(o), o[name]
ObjectKeys(o) == [i \in 1..Len(o.props) |-> o.props[i].name]
ObjectValues(o) == [i \in 1..Len(o.props) |-> o.props[i].val]
PropIndex(o, n) == CHOOSE i \in 1..Len(o.props) : o.props[i].name = n
PropVal(o, n) == o.props[PropIndex(o, n)].val

\* the segments of a record argument: objKeys.sort().map(key => `${key}=${transformKey(o[key])}`)
RecordSegmentsUnsorted(o) ==
    LET ks == ObjectKeys(o)
    IN  [i \in 1..Len(ks) |-> ks[i] \o "=" \o Interp(transformKey(PropVal(o, ks[i])))]

RecordSegments(o) ==
    LET ks == SortNames(ObjectKeys(o))
    IN  [i \in 1..Len(ks) |-> ks[i] \o "=" \o Interp(transformKey(PropVal(o, ks[i])))]

\* '[' + currentArg.map(transformKey).join('_') + ']'
ArraySegment(a) ==
    "[" \o Join([i \in 1..Len(a.items) |-> Interp(transformKey(a.items[i]))], "_") \o "]"

\* One turn of generateKey's loop on currentArg: ret says the loop returned
\* null, segs is keySegments after the turn.
KeyStep(currentArg, keySegments) ==
    IF isPlainObject(currentArg)
    THEN IF Len(ObjectKeys(currentArg)) > 0
         THEN IF \E i \in 1..Len(currentArg.props) : isBadKeySegment(ObjectValues(currentArg)[i])
              THEN [ret |-> TRUE, segs |-> keySegments]
              ELSE [ret |-> FALSE, segs |-> keySegments \o RecordSegments(currentArg)]
         ELSE [ret |-> FALSE, segs |-> Append(keySegments, "{}")]
    ELSE IF isArray(currentArg)
    THEN IF Len(currentArg.items) > 0
         THEN IF \E i \in 1..Len(currentArg.items) : isBadKeySegment(currentArg.items[i])
              THEN [ret |-> TRUE, segs |-> keySegments]
              ELSE [ret |-> FALSE, segs |-> Append(keySegments, ArraySegment(currentArg))]
         ELSE [ret |-> FALSE, segs |-> Append(keySegments, "[]")]
    ELSE IF ~isBadKeySegment(currentArg)
    THEN [ret |-> FALSE, segs |-> Append(keySegments, Interp(transformKey(currentArg)))]
    ELSE [ret |-> FALSE, segs |-> keySegments]

RECURSIVE KeyLoop(_, _, _)
KeyLoop(args, i, keySegments) ==
    IF i > Len(args)
    THEN IF Len(keySegments) > 0 THEN Key(Join(keySegments, "&")) ELSE NullKey
    ELSE LET r == KeyStep(args[i], keySegments)
         IN  IF r.ret THEN NullKey ELSE KeyLoop(args, i + 1, r.segs)

generateKey(args) ==
    IF Len(args) = 1 /\ args[1] = Undef
    THEN Key(DefaultKey)
    ELSE KeyLoop(args, 1, <<>>)

\* A custom key function applied to the arguments.  The functions of the
\* model are named by what they return: the text of their first argument
\* after a prefix, the empty string, a number, a plain object.
ApplyKeyFn(fn, args) ==
    CASE fn.s = "fn_id" -> Str("fn_key_test_" \o (IF Len(args) > 0 THEN args[1].s ELSE "undefined"))
      [] fn.s = "fn_empty" -> Str("")
      [] fn.s = "fn_num" -> Num("1")
      [] OTHER -> Obj(<<>>)

\* CacheHandler.getCacheKey; key is the handler's config.key, Undef when
\* none is configured.
getCacheKey(key, args) ==
    IF key # Undef
    THEN IF TypeOf(key) = "function"
         THEN transformKey(ApplyKeyFn(key, args))
         ELSE IF ~isBadKeySegment(key)
         THEN transformKey(key)
         ELSE NullKey
    ELSE IF Len(args) > 0
    THEN generateKey(args)
    ELSE Key(DefaultKey)

-----------------------------------------------------------------------------
(* SpecKey: getCacheKey applied to bounded argument tuples, and to a       *)
(* second tuple obtained from the first by reordering the properties of a  *)
(* record, by replacing a non-string primitive by the string of its text,  *)
(* or by inserting an argument that cannot be derived.                     *)

SeqsUpTo(S, n) == UNION {[1..m -> S] : m \in 0..n}

InsertAt(seq, p, x) == SubSeq(seq, 1, p - 1) \o <<x>> \o SubSeq(seq, p, Len(seq))

ReplaceAt(seq, p, x) == [seq EXCEPT ![p] = x]

\* primitives given as arguments
PrimVals ==
    {Num("1"), Str("1"), Null, Str("null"), Undef, Str("undefined"),
     NaNVal, Str("NaN"), Bool("true"), Str("true"), Str(""), Str("xx")}

\* a record whose only property holds a record
NestedObj == Obj(<<Prop("name", Str("el"))>>)

\* values of record properties and of array elements
RecVals == {Num("1"), Null, Str("xx"), NestedObj}
ArrVals == {Num("1"), Str("2"), Undef, Arr(<<>>)}

\* the property names in the order the records of the model are written in
PropNames == <<"id", "name", "age", "d">>

\* the names of a record as written: some of PropNames, in that order
NameSeqs ==
    {SelectSeq(PropNames, LAMBDA n : n \in S) :
        S \in {T \in SUBSET {PropNames[i] : i \in 1..Len(PropNames)} : Cardinality(T) <= MaxProps}}

Records ==
    {Obj([i \in 1..Len(ns) |-> Prop(ns[i], vs[i])]) :
        <<ns, vs>> \in {p \in NameSeqs \X SeqsUpTo(RecVals, MaxProps) : Len(p[1]) = Len(p[2])}}

Arrays == {Arr(items) : items \in SeqsUpTo(ArrVals, MaxItems)}

\* arguments of unsupported type
Unsupported == {MapObj, FuncObj}

ArgVals == PrimVals \cup Records \cup Arrays \cup Unsupported

\* the other arguments of a call
SimpleArgs == {Str("1"), Num("1"), Undef, Obj(<<Prop("id", Num("2"))>>)}

\* the argument tuples: any one argument among simple ones, at any position
KeyArgTuples ==
    {<<>>} \cup
    {InsertAt(ctx, p, f) : <<ctx, p, f>> \in
        {t \in SeqsUpTo(SimpleArgs, MaxArgs - 1) \X (1..MaxArgs) \X ArgVals : t[2] <= Len(t[1]) + 1}}

\* arguments no key can be derived from
Underivable ==
    Unsupported \cup {Obj(<<Prop("id", Num("1")), Prop("d", NestedObj)>>), Arr(<<NestedObj>>)}

Reorderings(n) == {f \in [1..n -> 1..n] : \A i, j \in 1..n : i # j => f[i] # f[j]}

IsNonStringPrimitive(v) == v.t \in {"number", "boolean", "null", "undefined"}

\* the string holding the text of a primitive
TextOf(v) == Str(v.s)

InitKeyVars ==
    /\ kPhase = "input"
    /\ kArgs \in KeyArgTuples
    /\ kKey = NullKey
    /\ kArgs2 = <<>>
    /\ kKey2 = NullKey

\* getDetail.getCacheKey(...args)
KeyDerive ==
    /\ kPhase = "input"
    /\ kPhase' = "derived"
    /\ kKey' = getCacheKey(Undef, kArgs)
    /\ UNCHANGED <<kArgs, kArgs2, kKey2, hvars>>

\* the same call with the properties of one record argument in another order
KeyPermute ==
    /\ kPhase = "derived"
    /\ \E i \in 1..Len(kArgs) :
          /\ isPlainObject(kArgs[i])
          /\ \E f \in Reorderings(Len(kArgs[i].props)) :
                /\ \E j \in DOMAIN f : f[j] # j
                /\ kArgs2' = ReplaceAt(kArgs, i,
                       Obj([j \in 1..Len(kArgs[i].props) |-> kArgs[i].props[f[j]]]))
    /\ kKey2' = getCacheKey(Undef, kArgs2')
    /\ kPhase' = "permuted"
    /\ UNCHANGED <<kArgs, kKey, hvars>>

\* the same call with one non-string primitive (an argument, a property
\* value or an array element) replaced by the string of its text
KeyStringify ==
    /\ kPhase = "derived"
    /\ \E i \in 1..Len(kArgs) :
          \/ /\ IsNonStringPrimitive(kArgs[i])
             /\ kArgs2' = ReplaceAt(kArgs, i, TextOf(kArgs[i]))
          \/ /\ isPlainObject(kArgs[i])
             /\ \E j \in 1..Len(kArgs[i].props) :
                   /\ IsNonStringPrimitive(kArgs[i].props[j].val)
                   /\ kArgs2' = ReplaceAt(kArgs, i,
                          Obj(ReplaceAt(kArgs[i].props, j,
                              Prop(kArgs[i].props[j].name, TextOf(kArgs[i].props[j].val)))))
          \/ /\ isArray(kArgs[i])
             /\ \E j \in 1..Len(kArgs[i].items) :
                   /\ IsNonStringPrimitive(kArgs[i].items[j])
                   /\ kArgs2' = ReplaceAt(kArgs, i,
                          Arr(ReplaceAt(kArgs[i].items, j, TextOf(kArgs[i].items[j]))))
    /\ kKey2' = getCacheKey(Undef, kArgs2')
    /\ kPhase' = "stringified"
    /\ UNCHANGED <<kArgs, kKey, hvars>>

\* the same call with one more argument, at any position, that cannot be derived
KeySpoil ==
    /\ kPhase = "derived"
    /\ \E p \in 1..(Len(kArgs) + 1), bad \in Underivable :
          kArgs2' = InsertAt(kArgs, p, bad)
    /\ kKey2' = getCacheKey(Undef, kArgs2')
    /\ kPhase' = "spoiled"
    /\ UNCHANGED <<kArgs, kKey, hvars>>

\* a function given as the key option, named by what it returns
KeyFn(name) == JSVal("function", name)

\* the key options of the model: a fixed string, functions, a plain object
CustomKeys ==
    {Str("999"), KeyFn("fn_id"), KeyFn("fn_empty"), KeyFn("fn_num"), KeyFn("fn_obj"), Obj(<<>>)}

\* withCache(resolver, {key}).getCacheKey(...args): the same call on a handler
\* constructed with a key option
KeyCustom ==
    /\ kPhase = "derived"
    /\ \E key \in CustomKeys :
          /\ config' = [config EXCEPT !.key = key]
          /\ kKey2' = getCacheKey(key, kArgs)
    /\ kArgs2' = kArgs
    /\ kPhase' = "custom"
    /\ UNCHANGED <<kArgs, kKey, now, cacheMap, tasks, calls, storage, pending, queue, unhandled,
                   regAt, removed, xvars>>

-----------------------------------------------------------------------------
(* JSON.stringify and JSON.parse on the values of the model.               *)

BigIntVal == JSVal("bigint", "1")
ErrVal(name) == JSVal("Error", name)

\* the values the model's producer resolves with and set is given
ObjVal == Obj(<<Prop("id", Num("1"))>>)

\* the values JSON texts of the model denote
JsonDomain == {ObjVal, Obj(<<>>), Num("1"), Null, Str("xx"), Obj(<<Prop("id", Num("900"))>>)}

\* JSON.stringify(v) is undefined
StringifiesToUndefined(v) == v.t \in {"undefined", "function"}

\* JSON.stringify(v) throws a TypeError
StringifyThrows(v) == v.t = "bigint"

\* the JSON text of a value that has one
RECURSIVE JSONText(_)
JSONText(v) ==
    CASE v.t = "string" -> "\"" \o v.s \o "\""
      [] v.t = "number" -> IF v.s = "NaN" THEN "null" ELSE v.s
      [] v.t = "boolean" -> v.s
      [] v.t = "Object" ->
            "{" \o Join([i \in 1..Len(v.props) |->
                          "\"" \o v.props[i].name \o "\":" \o JSONText(v.props[i].val)], ",") \o "}"
      [] v.t = "Array" ->
            "[" \o Join([i \in 1..Len(v.items) |-> JSONText(v.items[i])], ",") \o "]"
      [] OTHER -> "null"

\* a completion: the value returned, or the error thrown
Return(v) == [threw |-> FALSE, v |-> v]
Throw(e) == [threw |-> TRUE, v |-> e]

JSONstringify(v) ==
    IF StringifyThrows(v) THEN Throw(ErrVal("TypeError"))
    ELSE IF StringifiesToUndefined(v) THEN Return(Undef)
    ELSE Return(Str(JSONText(v)))

\* JSON.parse(x): x is converted to a string first
JSONparse(x) ==
    IF \E v \in JsonDomain : JSONText(v) = x.s
    THEN Return(CHOOSE v \in JsonDomain : JSONText(v) = x.s)
    ELSE Throw(ErrVal("SyntaxError"))

-----------------------------------------------------------------------------
(* Promises.  A promise is [st, v]: st is "pending", "fulfilled" or        *)
(* "rejected", v the value or the reason.                                  *)

Pending == [st |-> "pending", v |-> Undef]
Fulfilled(v) == [st |-> "fulfilled", v |-> v]
Rejected(e) == [st |-> "rejected", v |-> e]

\* The promise of a task: the producer's, or Promise.resolve(data) of set.
\* The producer returns a native promise, which Promise.resolve returns as it is.
OriginTask(t) == [st |-> t.st, v |-> t.v]

\* cacheData = originTask.then(res => { ...; return JSON.stringify(res) }) with
\* the rejection swallowed
CacheDataSwallow(t) ==
    IF t.src = "load" THEN Fulfilled(t.v)
    ELSE IF t.st = "pending" THEN Pending
    ELSE IF t.st = "rejected" THEN Fulfilled(Undef)
    ELSE LET r == JSONstringify(t.v)
         IN  IF r.threw THEN Rejected(r.v) ELSE Fulfilled(r.v)

\* The data of an entry.  For an entry of set it is
\* cacheData = originTask.then(res => { ...; return JSON.stringify(res) }); for
\* an entry of _loadCache it is Promise.resolve of the stored string.
CacheData(t) ==
    IF t.src = "load" THEN Fulfilled(t.v)
    ELSE IF t.st = "pending" THEN Pending
    ELSE IF t.st = "rejected" THEN Rejected(t.v)
    ELSE LET r == JSONstringify(t.v)
         IN  IF r.threw THEN Rejected(r.v) ELSE Fulfilled(r.v)

\* what get returns: data.then(res => JSON.parse(res))
ThenParse(p) ==
    IF p.st # "fulfilled" THEN p
    ELSE LET r == JSONparse(p.v)
         IN  IF r.threw THEN Rejected(r.v) ELSE Fulfilled(r.v)

-----------------------------------------------------------------------------
(* The handler.  Its operations are composed from operators on a record h  *)
(* of the fields they change: [map, storage, pending, queue, unhandled].   *)

\* a value in a condition: if (v)
Truthy(v) ==
    ~ \/ v.t \in {"null", "undefined"}
      \/ v.t = "string" /\ v.s = ""
      \/ v.t = "number" /\ v.s \in {"0", "NaN"}
      \/ v.t = "boolean" /\ v.s = "false"

\* a key of type string | null as a value
KeyVal(k) == IF k = NullKey THEN Null ELSE Str(k[1])

\* normalizeKey without its default
normalizeKeyAsGiven(key) == key

normalizeKey(key) == IF key = Undef THEN Str(DefaultKey) ELSE key

\* Map: has, set, delete.  The map holds string keys only.
EmptyMap == [k \in {} |-> 0]
MapHas(map, key) == isString(key) /\ key.s \in DOMAIN map
MapSet(map, k, e) == [x \in (DOMAIN map) \cup {k} |-> IF x = k THEN e ELSE map[x]]
MapDelete(map, key) ==
    IF MapHas(map, key) THEN [x \in (DOMAIN map) \ {key.s} |-> map[x]] ELSE map

NoItem == [exists |-> FALSE, items |-> {}]
Item(items) == [exists |-> TRUE, items |-> items]

\* the storage media, and persistMedia when it is not given
Media == {"sessionStorage", "localStorage"}
NoMedia == "undefined"

\* the persist identifiers of the model; the first names the handler the
\* model starts with when it persists
FirstName == "a"
PersistNames == {"a", "b"}

\* a slot is named by its medium and the identifier behind StorePrefix
SlotNames == Media \X PersistNames

FirstSlot == <<"sessionStorage", FirstName>>

\* DefaultConfig as the module is loaded
DefaultConfig == [maxAge |-> 0, debug |-> FALSE, persistMedia |-> NoMedia]

\* an option that is not given, and one that is
Absent == <<>>
Given(v) == <<v>>

\* the config given to withCache
Options(maxAge, persist, persistMedia) ==
    [maxAge |-> maxAge, persist |-> persist, persistMedia |-> persistMedia]

\* a construction: the config given, DefaultConfig as it was, whether the
\* handler persists, and whether the page was loaded again before it
Built(opts, defs, enabled, reload) ==
    [name |-> opts.persist, opts |-> opts, defs |-> defs, enabled |-> enabled,
     reload |-> reload]

\* the caller holds no object
NoHeld == [from |-> "none", task |-> 0, val |-> Undef, orig |-> Undef, given |-> {}, atSet |-> Undef]

Heap == [map |-> cacheMap, storage |-> storage, pending |-> pending,
         queue |-> queue, unhandled |-> unhandled]

\* the pairs _persistCache collects from the map, each with the task its data waits for
Snapshot(map) ==
    {[key |-> k, expire |-> map[k].expire, data |-> map[k].data] : k \in DOMAIN map}

SnapFailed(snap, tk) == \E it \in snap : CacheData(tk[it.data]).st = "rejected"
SnapReady(snap, tk) == \A it \in snap : CacheData(tk[it.data]).st = "fulfilled"

\* the array given to JSON.stringify: [key, {expire, data}] pairs
SnapData(snap, tk) ==
    {[key |-> it.key, expire |-> it.expire, data |-> CacheData(tk[it.data]).v] : it \in snap}

\* _persistCache without removeItem
PersistCacheKeepsSlot(h, tk) ==
    IF config.persist /\ DOMAIN h.map # {}
    THEN LET snap == Snapshot(h.map)
         IN  IF SnapFailed(snap, tk) THEN [h EXCEPT !.unhandled = TRUE]
             ELSE IF SnapReady(snap, tk)
             THEN [h EXCEPT !.queue = Append(@, SnapData(snap, tk))]
             ELSE [h EXCEPT !.pending = Append(@, snap)]
    ELSE h

\* _persistCache.  Promise.all is rejected as soon as one data is: its then
\* never runs and nothing handles the rejection.
PersistCache(h, tk) ==
    IF config.persist
    THEN IF DOMAIN h.map # {}
         THEN LET snap == Snapshot(h.map)
              IN  IF SnapFailed(snap, tk) THEN [h EXCEPT !.unhandled = TRUE]
                  ELSE IF SnapReady(snap, tk)
                  THEN [h EXCEPT !.queue = Append(@, SnapData(snap, tk))]
                  ELSE [h EXCEPT !.pending = Append(@, snap)]
         ELSE [h EXCEPT !.storage = NoItem]
    ELSE h

\* clear(key)
ClearOp(h, keyArg, tk) ==
    LET key == normalizeKey(keyArg)
    IN  IF Truthy(key)
        THEN PersistCache([h EXCEPT !.map = MapDelete(@, key)], tk)
        ELSE h

\* has(key) at time t: [h, ret]
HasOp(h, keyArg, t, tk) ==
    LET key == normalizeKey(keyArg)
    IN  IF MapHas(h.map, key)
        THEN LET data == h.map[key.s]
             IN  IF data.expire # 0 /\ t > data.expire
                 THEN [h |-> ClearOp(h, key, tk), ret |-> FALSE]
                 ELSE [h |-> h, ret |-> TRUE]
        ELSE [h |-> h, ret |-> FALSE]

\* get(key) at time t: [h, ret, task]; ret is "null", or "promise" with the
\* task whose cacheData the returned promise parses
GetOp(h, keyArg, t, tk) ==
    LET key == normalizeKey(keyArg)
        r == HasOp(h, key, t, tk)
    IN  IF r.ret
        THEN [h |-> r.h, ret |-> "promise", task |-> r.h.map[key.s].data]
        ELSE [h |-> r.h, ret |-> "null", task |-> 0]

\* what has(key) returns in the current state
HasNow(key) == HasOp(Heap, key, now, tasks).ret

\* the expire of an entry set at time t, the old multiplier
ExpireAtHundred(t) == IF config.maxAge > 0 THEN t + config.maxAge * 100 ELSE 0

\* the expire of an entry set at time t, with maxAge read from DefaultConfig
ExpireAtDefaults(t) == IF defaults.maxAge > 0 THEN t + defaults.maxAge * MsPerSec ELSE 0

\* the expire of an entry set at time t
ExpireAt(t) == IF config.maxAge > 0 THEN t + config.maxAge * MsPerSec ELSE 0

\* set(data, key) past its key check: the entry is put in the map, with the
\* task whose cacheData it holds
SetOp(h, key, task, t) ==
    [h EXCEPT !.map = MapSet(@, key.s, [expire |-> ExpireAt(t), data |-> task])]

\* a new task
Task(key, reg, src, v) ==
    [key |-> key, reg |-> reg, src |-> src, st |-> "pending", v |-> v, seen |-> "none"]

Install(h) ==
    /\ cacheMap' = h.map
    /\ storage' = h.storage
    /\ pending' = h.pending
    /\ queue' = h.queue
    /\ unhandled' = h.unhandled

\* an operation of the caller is taken while few snapshots are outstanding
InstallBounded(h) ==
    /\ Len(h.queue) + Len(h.pending) <= MaxWrites \/ (h.queue = queue /\ h.pending = pending)
    /\ Install(h)

\* The reactions to a rejected originTask, in the order they were attached:
\* the eviction attached by set, then the handler of do's caller, which sees
\* has(key) as seen.
RejectionReactions(h, key) ==
    LET h2 == [h EXCEPT !.map = MapDelete(@, key)]
    IN  [h |-> h2, seen |-> IF HasOp(h2, key, now, tasks).ret THEN "live" ELSE "gone"]

\* Promise.all of each waiting snapshot once the data of a task has settled
RECURSIVE PromoteFrom(_, _, _)
PromoteFrom(h, rest, tk) ==
    IF rest = <<>> THEN h
    ELSE LET snap == Head(rest)
         IN  IF SnapFailed(snap, tk)
             THEN PromoteFrom([h EXCEPT !.unhandled = TRUE], Tail(rest), tk)
             ELSE IF SnapReady(snap, tk)
             THEN PromoteFrom([h EXCEPT !.queue = Append(@, SnapData(snap, tk))], Tail(rest), tk)
             ELSE PromoteFrom([h EXCEPT !.pending = Append(@, snap)], Tail(rest), tk)

Promote(h, tk) == PromoteFrom([h EXCEPT !.pending = <<>>], h.pending, tk)

-----------------------------------------------------------------------------
(* Inputs of the handler's operations.                                     *)

\* the argument tuples given to do
DoArgs == {<<>>, <<Undef>>, <<Obj(<<>>)>>}
DoArgsFalsy == {<<>>, <<Str("")>>}
DoArgsAge == {<<>>}
DoArgsPersist == {<<>>, <<MapObj>>}

\* the keys given to has, get and clear, and to set
ApiKeys == {Undef, Str("{}")}
ApiKeysFalsy == {Undef, Str(""), NaNVal}
ApiKeysAge == {Undef, Str("{}")}
ApiKeysPersist == {Undef}
SetKeys == {Undef, Num("900")}
SetKeysFalsy == {Str(""), Num("900")}
SetKeysAge == {Undef, Num("900")}
SetKeysPersist == {Undef}

\* what the producer resolves with, and its rejection
ResultVals == {ObjVal}
ResultValsFalsy == {ObjVal, Undef}
ResultValsAge == {ObjVal}
ResultValsPersist == {ObjVal}
ProducerError == ErrVal("404")

\* the data given to set
SetVals == {ObjVal}

NumSets == Cardinality({i \in 1..Len(tasks) : tasks[i].src = "set"})

\* do caches whatever getCacheKey returns
CacheableAlways(cacheKey) == TRUE

\* if (cacheKey): do caches under the key
Cacheable(cacheKey) == Truthy(KeyVal(cacheKey))

\* The earliest task a do started for the key that has not settled and that
\* no later registration or removal has taken the entry from, or 0.
InFlight(key) ==
    LET ids == {i \in 1..Len(tasks) :
                   /\ tasks[i].src = "do" /\ tasks[i].key = key /\ tasks[i].st = "pending"
                   /\ tasks[i].reg => /\ MapHas(cacheMap, KeyVal(key))
                                      /\ cacheMap[key[1]].data = i}
    IN  IF key = NullKey \/ ids = {} THEN 0 ELSE CHOOSE i \in ids : \A j \in ids : i <= j

\* The task of the entry for the key, if the entry is present, its task
\* resolved and its expire not passed, or 0.
LiveTask(key) ==
    IF /\ key # NullKey
       /\ MapHas(cacheMap, KeyVal(key))
       /\ tasks[cacheMap[key[1]].data].st = "fulfilled"
       /\ cacheMap[key[1]].expire = 0 \/ now <= cacheMap[key[1]].expire
    THEN cacheMap[key[1]].data
    ELSE 0

\* a call of do: its arguments and derived key, what it did (kind) and with
\* which task, has(key) as do returned, and the tasks InFlight and LiveTask
\* found when it was issued
Call(args, key, kind, task, hasAfter) ==
    [args |-> args, key |-> key, kind |-> kind, task |-> task, hasAfter |-> hasAfter,
     inFlight |-> InFlight(key), live |-> LiveTask(key)]

\* what the promise a call of do returned has settled with
Outcome(c) ==
    CASE c.kind = "hit" -> ThenParse(CacheData(tasks[c.task]))
      [] c.kind \in {"origin", "bypass"} -> OriginTask(tasks[c.task])
      [] OTHER -> Pending

\* the instants the clock of the model stops at: the start and the end of
\* each period of maxAge seconds, and one millisecond after
Instants == {p * config.maxAge * MsPerSec + e : p \in 0..MaxPeriods, e \in {0, 1}}

-----------------------------------------------------------------------------
(* The operations of one handler.                                          *)

\* the handler the model starts with, and the string under the first slot
InitHandlerIn(maxAge, persist, seed) ==
    /\ config = [maxAge |-> maxAge, key |-> Undef, persist |-> persist,
                 name |-> IF persist THEN Str(FirstName) ELSE Undef,
                 debug |-> FALSE, persistMedia |-> NoMedia]
    /\ defaults = DefaultConfig
    /\ registry = IF persist THEN <<FirstName>> ELSE <<>>
    /\ slots = [n \in SlotNames |-> IF n = FirstSlot /\ ~persist THEN seed ELSE NoItem]
    /\ log = {}
    /\ built = <<Built(Options(Given(maxAge), IF persist THEN Str(FirstName) ELSE Undef, Absent),
                       DefaultConfig, persist, FALSE)>>
    /\ held = NoHeld
    /\ now = 0
    /\ cacheMap = EmptyMap
    /\ tasks = <<>>
    /\ calls = <<>>
    /\ storage = NoItem
    /\ pending = <<>>
    /\ queue = <<>>
    /\ unhandled = FALSE
    /\ regAt = EmptyMap
    /\ removed = {}

InitHandlerWith(maxAge, persist) == InitHandlerIn(maxAge, persist, NoItem)

IdleKeyVars ==
    /\ kPhase = "idle"
    /\ kArgs = <<>>
    /\ kKey = NullKey
    /\ kArgs2 = <<>>
    /\ kKey2 = NullKey

\* do(...args)
Do(args) ==
    /\ Len(calls) < MaxCalls
    /\ LET cacheKey == getCacheKey(config.key, args)
           kv == KeyVal(cacheKey)
           probe == IF Cacheable(cacheKey)
                    THEN HasOp(Heap, kv, now, tasks)
                    ELSE [h |-> Heap, ret |-> FALSE]
       IN  IF Cacheable(cacheKey) /\ probe.ret
           THEN \* read cache: get(cacheKey) probes again, the clock may have moved
                \E t2 \in {now} \cup {t \in Instants : config.maxAge > 0 /\ t > now} :
                   /\ LET g == GetOp(probe.h, kv, t2, tasks)
                      IN  /\ InstallBounded(g.h)
                          /\ calls' = Append(calls,
                                 IF g.ret = "promise"
                                 THEN Call(args, cacheKey, "hit", g.task, TRUE)
                                 ELSE Call(args, cacheKey, "null", 0, FALSE))
                   /\ now' = t2
                   /\ UNCHANGED <<tasks, regAt, removed>>
           ELSE \* this._resolver(...args), and set(cacheData, cacheKey) if (cacheKey)
                LET id == Len(tasks) + 1
                    h2 == IF Cacheable(cacheKey) THEN SetOp(probe.h, kv, id, now) ELSE probe.h
                IN  /\ tasks' = Append(tasks, Task(cacheKey, Cacheable(cacheKey), "do", Undef))
                    /\ InstallBounded(h2)
                    /\ calls' = Append(calls,
                           Call(args, cacheKey, IF Cacheable(cacheKey) THEN "origin" ELSE "bypass",
                                id, HasOp(h2, kv, now, tasks').ret))
                    /\ regAt' = IF Cacheable(cacheKey) THEN MapSet(regAt, kv.s, now) ELSE regAt
                    /\ removed' = IF Cacheable(cacheKey) THEN removed \ {kv.s} ELSE removed
                    /\ UNCHANGED now
    /\ UNCHANGED <<config, kvars, xvars>>

\* the outcomes a task can settle with
Outcomes(t, results) ==
    IF t.src = "set" THEN {Fulfilled(t.v)}
    ELSE {Fulfilled(v) : v \in results} \cup {Rejected(ProducerError)}

\* The task settles and the reactions attached to it run: the callback of
\* cacheData (which calls _persistCache before cacheData settles) or the
\* eviction, then the handlers of the callers, then what waits for cacheData.
Settle(i, o) ==
    /\ tasks[i].st = "pending"
    /\ LET t == tasks[i]
           key == KeyVal(t.key)
           h1 == IF t.reg /\ o.st = "fulfilled" THEN PersistCache(Heap, tasks) ELSE Heap
           rr == IF t.reg /\ o.st = "rejected"
                 THEN RejectionReactions(h1, key)
                 ELSE IF t.src = "do" /\ t.key # NullKey /\ o.st = "rejected"
                 THEN [h |-> h1,
                       seen |-> IF HasOp(h1, key, now, tasks).ret THEN "live" ELSE "gone"]
                 ELSE [h |-> h1, seen |-> "none"]
           tk == [tasks EXCEPT ![i] = [@ EXCEPT !.st = o.st, !.v = o.v, !.seen = rr.seen]]
       IN  /\ tasks' = tk
           /\ Install(Promote(rr.h, tk))
           /\ removed' = IF t.reg /\ o.st = "rejected" THEN removed \cup {key.s} ELSE removed
    /\ UNCHANGED <<config, now, calls, regAt, kvars, xvars>>

\* set(data, key)
Set(data, keyArg) ==
    /\ NumSets < MaxSets
    /\ LET key == normalizeKey(keyArg)
       IN  IF ~isString(key)
           THEN UNCHANGED <<cacheMap, tasks, storage, pending, queue, unhandled, regAt, removed>>
           ELSE LET id == Len(tasks) + 1
                IN  /\ tasks' = Append(tasks, Task(Key(key.s), TRUE, "set", data))
                    /\ Install(SetOp(Heap, key, id, now))
                    /\ regAt' = MapSet(regAt, key.s, now)
                    /\ removed' = removed \ {key.s}
    /\ UNCHANGED <<config, now, calls, kvars, xvars>>

\* get(key)
Get(keyArg) ==
    /\ InstallBounded(GetOp(Heap, keyArg, now, tasks).h)
    /\ UNCHANGED <<config, now, tasks, calls, regAt, removed, kvars, xvars>>

\* has(key)
Has(keyArg) ==
    /\ InstallBounded(HasOp(Heap, keyArg, now, tasks).h)
    /\ UNCHANGED <<config, now, tasks, calls, regAt, removed, kvars, xvars>>

\* clear(key)
Clear(keyArg) ==
    /\ InstallBounded(ClearOp(Heap, keyArg, tasks))
    /\ removed' = IF Truthy(normalizeKey(keyArg)) /\ isString(normalizeKey(keyArg))
                  THEN removed \cup {normalizeKey(keyArg).s}
                  ELSE removed
    /\ UNCHANGED <<config, now, tasks, calls, regAt, kvars, xvars>>

\* clearAll()
ClearAll ==
    /\ InstallBounded(PersistCache([Heap EXCEPT !.map = EmptyMap], tasks))
    /\ removed' = removed \cup DOMAIN regAt
    /\ UNCHANGED <<config, now, tasks, calls, regAt, kvars, xvars>>

\* The clock moves on to a later instant.
Tick(t) ==
    /\ t > now
    /\ now' = t
    /\ UNCHANGED <<config, cacheMap, tasks, calls, storage, pending, queue, unhandled,
                   regAt, removed, kvars, xvars>>

\* the then of Promise.all in _persistCache: setItem
FlushWrite ==
    /\ queue # <<>>
    /\ storage' = Item(Head(queue))
    /\ queue' = Tail(queue)
    /\ UNCHANGED <<config, now, cacheMap, tasks, calls, pending, unhandled, regAt, removed,
                   kvars, xvars>>

-----------------------------------------------------------------------------
(* A caller that keeps the object a task resolved with, changes it, and    *)
(* gives it to set.                                                        *)

\* the object a settled promise carried, as the caller received it
Held(from, task, v) ==
    [from |-> from, task |-> task, val |-> v, orig |-> v, given |-> {}, atSet |-> Undef]

\* data.id = 900
Mutated(o) == Obj(<<Prop("id", Num("900"))>>)

\* const data = await the promise call j of do returned
TakeDo(j) ==
    /\ held.from = "none"
    /\ Outcome(calls[j]).st = "fulfilled"
    /\ isPlainObject(Outcome(calls[j]).v)
    /\ held' = Held("do", calls[j].task, Outcome(calls[j]).v)
    /\ UNCHANGED <<config, now, cacheMap, tasks, calls, storage, pending, queue, unhandled,
                   regAt, removed, defaults, registry, slots, log, built, kvars>>

\* const data = await get(key)
TakeGet(keyArg) ==
    /\ held.from = "none"
    /\ LET g == GetOp(Heap, keyArg, now, tasks)
       IN  /\ g.ret = "promise"
           /\ ThenParse(CacheData(tasks[g.task])).st = "fulfilled"
           /\ isPlainObject(ThenParse(CacheData(tasks[g.task])).v)
           /\ held' = Held("get", g.task, ThenParse(CacheData(tasks[g.task])).v)
           /\ InstallBounded(g.h)
    /\ UNCHANGED <<config, now, tasks, calls, regAt, removed, defaults, registry, slots, log,
                   built, kvars>>

\* The caller changes the object it holds.  A task of set that has not
\* settled resolves with the object as it is when the task settles.
Mutate ==
    /\ held.from # "none"
    /\ held.val = held.orig
    /\ held' = [held EXCEPT !.val = Mutated(@)]
    /\ tasks' = [i \in 1..Len(tasks) |->
                    IF i \in held.given /\ tasks[i].st = "pending"
                    THEN [tasks[i] EXCEPT !.v = Mutated(@)]
                    ELSE tasks[i]]
    /\ UNCHANGED <<config, now, cacheMap, calls, storage, pending, queue, unhandled,
                   regAt, removed, defaults, registry, slots, log, built, kvars>>

\* set(data, key) with the object the caller holds
SetHeld(keyArg) ==
    /\ held.from # "none"
    /\ NumSets < MaxSets
    /\ isString(normalizeKey(keyArg))
    /\ LET key == normalizeKey(keyArg)
           id == Len(tasks) + 1
       IN  /\ tasks' = Append(tasks, Task(Key(key.s), TRUE, "set", held.val))
           /\ Install(SetOp(Heap, key, id, now))
           /\ regAt' = MapSet(regAt, key.s, now)
           /\ removed' = removed \ {key.s}
           /\ held' = [held EXCEPT !.given = @ \cup {id}, !.atSet = held.val]
    /\ UNCHANGED <<config, now, calls, defaults, registry, slots, log, built, kvars>>

-----------------------------------------------------------------------------
(* Construction.  The model follows one handler at a time: a new handler   *)
(* is constructed when the tasks and the writes of the one before it have  *)
(* all finished, and the operations that follow are the new handler's.     *)

\* Object.assign({}, DefaultConfig, config)
Overlay(defs, opts) ==
    [maxAge |-> IF opts.maxAge = Absent THEN defs.maxAge ELSE opts.maxAge[1],
     debug |-> defs.debug,
     persistMedia |-> IF opts.persistMedia = Absent THEN defs.persistMedia
                      ELSE opts.persistMedia[1]]

\* _getMediaHost
MediaHost(persistMedia) ==
    IF persistMedia = "localStorage" THEN "localStorage" ELSE "sessionStorage"

\* the slot of a handler that persists
OwnSlot(cfg) == <<MediaHost(cfg.persistMedia), cfg.name.s>>

\* a stored string that does not load: bad is "text" when JSON.parse throws,
\* "value" when it parses to a value with no map method, "element" when it
\* parses to an array holding the pairs of items and then an element that
\* is not a pair
BadItem(items, bad) == [exists |-> TRUE, items |-> items, bad |-> bad]
IsBad(slot) == "bad" \in DOMAIN slot

RECURSIVE SeqOf(_)
SeqOf(S) ==
    IF S = {} THEN <<>>
    ELSE LET x == CHOOSE y \in S : TRUE
         IN  <<x>> \o SeqOf(S \ {x})

\* Promise.resolve(data.data) of a loaded pair
LoadedTask(it) ==
    [Task(Key(it.key), FALSE, "load", it.data) EXCEPT !.st = "fulfilled"]

\* _loadCache on the handler's slot: the entries put in the map before the
\* load ended, their data, and whether the load threw
LoadCache(slot) ==
    IF ~slot.exists
    THEN [map |-> EmptyMap, tasks |-> <<>>, threw |-> FALSE]
    ELSE IF IsBad(slot) /\ slot.bad \in {"text", "value"}
    THEN [map |-> EmptyMap, tasks |-> <<>>, threw |-> TRUE]
    ELSE LET its == SeqOf(slot.items)
         IN  [map |-> [k \in {it.key : it \in slot.items} |->
                          LET i == CHOOSE j \in 1..Len(its) : its[j].key = k
                          IN  [expire |-> its[i].expire, data |-> i]],
              tasks |-> [i \in 1..Len(its) |-> LoadedTask(its[i])],
              threw |-> IsBad(slot)]

\* the persist option is a string that is not empty
ValidName(persist) == Truthy(persist) /\ isString(persist)

\* UsedPersistKeys.includes(persist), without the check
IncludesNever(reg, persist) == FALSE

\* UsedPersistKeys.includes(persist)
Includes(reg, persist) == \E i \in 1..Len(reg) : reg[i] = persist.s

\* new CacheHandler(resolver, opts); reload says the page was loaded again
\* since the last handler: the module state is new, the storage is kept
Construct(opts, reload) ==
    /\ Len(built) < MaxBuilds
    /\ \A i \in 1..Len(tasks) : tasks[i].st # "pending"
    /\ pending = <<>> /\ queue = <<>>
    /\ LET defs == IF reload THEN DefaultConfig ELSE defaults
           reg == IF reload THEN <<>> ELSE registry
           cfg == Overlay(defs, opts)
           valid == ValidName(opts.persist)
           dup == valid /\ Includes(reg, opts.persist)
           enabled == valid /\ ~dup
           back == IF config.persist THEN [slots EXCEPT ![OwnSlot(config)] = storage] ELSE slots
           own == <<MediaHost(cfg.persistMedia), opts.persist.s>>
           item == IF enabled THEN back[own] ELSE NoItem
           ld == LoadCache(item)
       IN  /\ config' = [maxAge |-> cfg.maxAge, key |-> Undef, persist |-> enabled,
                         name |-> opts.persist, debug |-> cfg.debug,
                         persistMedia |-> cfg.persistMedia]
           /\ defaults' = defs
           /\ registry' = IF enabled THEN Append(reg, opts.persist.s) ELSE reg
           /\ slots' = IF enabled THEN [back EXCEPT ![own] = NoItem] ELSE back
           /\ storage' = item
           /\ cacheMap' = ld.map
           /\ tasks' = ld.tasks
           /\ log' = (IF dup THEN {"duplicate"} ELSE {})
                      \cup (IF ~valid /\ Truthy(opts.persist) THEN {"invalid"} ELSE {})
                      \cup (IF ld.threw THEN {"load failed"} ELSE {})
           /\ built' = Append(built, Built(opts, defs, enabled, reload))
    /\ calls' = <<>>
    /\ regAt' = EmptyMap
    /\ removed' = {}
    /\ held' = NoHeld
    /\ UNCHANGED <<now, pending, queue, unhandled, kvars>>

\* the config given to setDefaults
Defaults(maxAge, debug, persistMedia) ==
    [t |-> "Object", maxAge |-> maxAge, debug |-> debug, persistMedia |-> persistMedia]

\* setDefaults(config)
SetDefaults(cfg) ==
    /\ defaults' =
          IF Truthy(cfg) /\ isPlainObject(cfg)
          THEN [maxAge |-> IF cfg.maxAge # Absent /\ cfg.maxAge[1] >= 0
                           THEN cfg.maxAge[1] ELSE defaults.maxAge,
                debug |-> IF cfg.debug # Absent THEN cfg.debug[1] ELSE defaults.debug,
                persistMedia |-> IF cfg.persistMedia # Absent
                                 THEN cfg.persistMedia[1] ELSE defaults.persistMedia]
          ELSE defaults
    /\ UNCHANGED <<config, now, cacheMap, tasks, calls, storage, pending, queue, unhandled,
                   regAt, removed, registry, slots, log, built, held, kvars>>

\* the then of Promise.all in _persistCache when setItem throws (the quota
\* of the store is exceeded): the promise of that then is rejected, and
\* nothing handles it
FlushFail ==
    /\ queue # <<>>
    /\ queue' = Tail(queue)
    /\ unhandled' = TRUE
    /\ UNCHANGED <<config, now, cacheMap, tasks, calls, storage, pending, regAt, removed,
                   kvars, xvars>>

\* the operations of the handler's interface and the settling of its tasks
HandlerOps(doArgs, setKeys, apiKeys, results) ==
    \/ \E args \in doArgs : Do(args)
    \/ \E i \in 1..Len(tasks) : \E o \in Outcomes(tasks[i], results) : Settle(i, o)
    \/ \E data \in SetVals, keyArg \in setKeys : Set(data, keyArg)
    \/ \E keyArg \in apiKeys : Get(keyArg)
    \/ \E keyArg \in apiKeys : Has(keyArg)
    \/ \E keyArg \in apiKeys : Clear(keyArg)
    \/ ClearAll

-----------------------------------------------------------------------------
(* Spec: a handler with no maxAge and no persist, called with no          *)
(* argument, with undefined and with {}.  With maxAge = 0 no operation     *)
(* reads the clock: set stores expire 0 and has skips Date.now() for a     *)
(* zero expire.                                                            *)

Init == InitHandlerWith(0, FALSE) /\ IdleKeyVars

Next == HandlerOps(DoArgs, SetKeys, ApiKeys, ResultVals)

Spec == Init /\ [][Next]_vars

(* SpecFalsy: the same handler given the empty string as an argument and  *)
(* as a key, a producer that may resolve with undefined, and undefined as  *)
(* the data of set.                                                        *)

NextFalsy ==
    \/ HandlerOps(DoArgsFalsy, SetKeysFalsy, ApiKeysFalsy, ResultValsFalsy)
    \/ \E keyArg \in SetKeysFalsy : Set(Undef, keyArg)

SpecFalsy == Init /\ [][NextFalsy]_vars

(* SpecAge: a handler with maxAge = 1 second, and the clock.               *)

InitAge == InitHandlerWith(1, FALSE) /\ IdleKeyVars

NextAge ==
    \/ HandlerOps(DoArgsAge, SetKeysAge, ApiKeysAge, ResultValsAge)
    \/ \E t \in Instants : Tick(t)

SpecAge == InitAge /\ [][NextAge]_vars

(* SpecAgeFair: SpecAge where the clock goes on to its last instant and   *)
(* every task settles; the caller may stop calling at any point.           *)

SpecAgeFair ==
    /\ InitAge
    /\ [][NextAge]_vars
    /\ WF_vars(\E t \in Instants : Tick(t))
    /\ WF_vars(\E i \in 1..Len(tasks) :
                   \E o \in Outcomes(tasks[i], ResultValsAge) : Settle(i, o))

(* SpecAgeFalsy: the handler with maxAge = 1 second given the empty string *)
(* as a key, and the clock.                                                *)

SetKeysAgeFalsy == {Str("")}
ApiKeysAgeFalsy == {Undef, Str("")}

NextAgeFalsy ==
    \/ HandlerOps(DoArgsAge, SetKeysAgeFalsy, ApiKeysAgeFalsy, ResultValsAge)
    \/ \E t \in Instants : Tick(t)

SpecAgeFalsy == InitAge /\ [][NextAgeFalsy]_vars

(* SpecPersist: a handler with persist, and the writes of its snapshots.   *)

InitPersist == InitHandlerWith(0, TRUE) /\ IdleKeyVars

NextPersist ==
    \/ HandlerOps(DoArgsPersist, SetKeysPersist, ApiKeysPersist, ResultValsPersist)
    \/ FlushWrite
    \/ FlushFail

SpecPersist == InitPersist /\ [][NextPersist]_vars

(* The inputs of the specifications below: do() without arguments,       *)
(* the default key, set(data, 900), and the producer of requestFixed.      *)

DoArgsPlain == {<<>>}
ApiKeysPlain == {Undef}
SetKeysPlain == {Num("900")}
ResultValsPlain == {ObjVal}

(* SpecIso: a handler and a caller that changes the object it received.   *)

NextIso ==
    \/ HandlerOps(DoArgsPlain, SetKeysPlain, ApiKeysPlain, ResultValsPlain)
    \/ \E j \in 1..Len(calls) : TakeDo(j)
    \/ \E keyArg \in ApiKeysPlain : TakeGet(keyArg)
    \/ Mutate
    \/ \E keyArg \in ApiKeysPlain : SetHeld(keyArg)

SpecIso == Init /\ [][NextIso]_vars

(* SpecLoad: handlers constructed one after the other, with and without  *)
(* a reload of the page in between, over a storage that may hold a string  *)
(* written before the first of them.                                       *)

\* a pair as _persistCache writes it
GoodPair == [key |-> DefaultKey, expire |-> 0, data |-> Str(JSONText(ObjVal))]

\* what the first slot holds at the start
SeedSlots ==
    {NoItem, Item({GoodPair}), BadItem({}, "text"), BadItem({}, "value"),
     BadItem({GoodPair}, "element")}

\* the configs given to withCache
BuildOpts ==
    {Options(Absent, persist, Absent) : persist \in {Str("a"), Str("b"), Num("321546897")}}


InitLoad == (\E seed \in SeedSlots : InitHandlerIn(0, FALSE, seed)) /\ IdleKeyVars

NextLoad ==
    \/ HandlerOps(DoArgsPlain, SetKeysPlain, ApiKeysPlain, ResultValsPlain)
    \/ FlushWrite
    \/ \E opts \in BuildOpts, reload \in BOOLEAN : Construct(opts, reload)

SpecLoad == InitLoad /\ [][NextLoad]_vars

(* SpecDefaults: handlers constructed one after the other in one page    *)
(* while setDefaults changes DefaultConfig, and the clock.                 *)

\* the configs given to setDefaults
DefaultsInputs ==
    {Undef,
     Defaults(Given(1), Given(TRUE), Given("localStorage")),
     Defaults(Given(-1), Absent, Absent)}

BuildOptsDefaults ==
    {Options(Absent, Str("a"), Absent), Options(Given(0), Str("b"), Given("sessionStorage"))}

NextDefaults ==
    \/ HandlerOps(DoArgsPlain, SetKeysPlain, ApiKeysPlain, ResultValsPlain)
    \/ FlushWrite
    \/ \E t \in Instants : Tick(t)
    \/ \E cfg \in DefaultsInputs : SetDefaults(cfg)
    \/ \E opts \in BuildOptsDefaults : Construct(opts, FALSE)

SpecDefaults == Init /\ [][NextDefaults]_vars

(* SpecReload: a handler that persists, with a producer that may resolve *)
(* with undefined, and the handlers constructed with its identifier after  *)
(* it, in the same process or after a reload.                              *)

BuildOptsReload == {Options(Absent, Str(FirstName), Absent)}

ResultValsReload == {ObjVal, Undef}

NextReload ==
    \/ HandlerOps(DoArgsPlain, SetKeysPlain, ApiKeysPlain, ResultValsReload)
    \/ FlushWrite
    \/ \E opts \in BuildOptsReload, reload \in BOOLEAN : Construct(opts, reload)

SpecReload == InitPersist /\ [][NextReload]_vars

(* SpecLoadAge: handlers with maxAge = 1 second and persist constructed    *)
(* after a reload over a slot that holds pairs with and without an expire,  *)
(* under the default key and under the empty string, and the clock.         *)

\* a pair as _persistCache writes it, for a key and an expire
StoredPair(key, expire) == [key |-> key, expire |-> expire, data |-> Str(JSONText(ObjVal))]

\* what the first slot holds at the start
SeedSlotsAge ==
    {Item({StoredPair(key, expire)}) : key \in {DefaultKey, ""}, expire \in {0, MsPerSec}}

BuildOptsAge == {Options(Given(1), Str(FirstName), Absent)}

InitLoadAge == (\E seed \in SeedSlotsAge : InitHandlerIn(1, FALSE, seed)) /\ IdleKeyVars

NextLoadAge ==
    \/ HandlerOps(DoArgsFalsy, SetKeysPlain, ApiKeysAgeFalsy, ResultValsPlain)
    \/ FlushWrite
    \/ \E t \in Instants : Tick(t)
    \/ \E opts \in BuildOptsAge : Construct(opts, TRUE)

SpecLoadAge == InitLoadAge /\ [][NextLoadAge]_vars

(* SpecKey: getCacheKey on argument tuples.                                *)

InitKey == InitKeyVars /\ InitHandlerWith(0, FALSE)

NextKey == KeyDerive \/ KeyPermute \/ KeyStringify \/ KeySpoil \/ KeyCustom

SpecKey == InitKey /\ [][NextKey]_vars

-----------------------------------------------------------------------------
(* The claims about the handler.                                           *)

\* the call invoked the producer
Invoked(c) == c.kind \in {"origin", "bypass"}

\* C1: Dedup.  A call of do whose derived key is not null, issued while the
\* task an earlier call of do started for the same key has not settled, does
\* not invoke the producer, and once that task has settled the two calls
\* have settled alike.
C1_Dedup ==
    \A j \in 1..Len(calls) :
        LET c == calls[j]
        IN  c.inFlight # 0 =>
                /\ ~Invoked(c)
                /\ tasks[c.inFlight].st # "pending" =>
                       Outcome(c) = OriginTask(tasks[c.inFlight])

\* C2: Rejection eviction.  When a call of do invoked the producer with a
\* key that is not null and the task has rejected, has(key) was true as do
\* returned and false when the caller's rejection handler ran; and no call
\* of do is served from a task that had rejected when the call was issued.
C2_RejectionEviction ==
    \A j \in 1..Len(calls) :
        LET c == calls[j]
        IN  /\ (c.key # NullKey /\ Invoked(c) /\ tasks[c.task].st = "rejected") =>
                  /\ c.hasAfter
                  /\ tasks[c.task].seen = "gone"
            /\ (c.kind = "hit" /\ tasks[c.task].src = "do" /\ tasks[c.task].st = "rejected") =>
                  c.inFlight = c.task

\* C3: Rejection propagation.  When the producer's task has rejected, the
\* call that started it and every call served from it while it was in flight
\* have settled with a rejection carrying the producer's error.
C3_RejectionPropagation ==
    \A j \in 1..Len(calls) :
        LET c == calls[j]
        IN  (c.task # 0 /\ tasks[c.task].src = "do" /\ tasks[c.task].st = "rejected") =>
                Outcome(c) = Rejected(ProducerError)

C3_Witness ==
    \E i, j \in 1..Len(calls) :
        /\ i < j
        /\ calls[i].kind = "origin"
        /\ calls[j].kind = "hit"
        /\ calls[j].task = calls[i].task
        /\ tasks[calls[i].task].st = "rejected"
        /\ Outcome(calls[j]) = Rejected(ProducerError)

\* C4: Cache hit.  A call of do issued while the entry of its key is
\* present, its task resolved and its expire not passed does not invoke the
\* producer and settles with the value the task resolved with.
C4_CacheHit ==
    \A j \in 1..Len(calls) :
        LET c == calls[j]
        IN  c.live # 0 =>
                /\ c.kind = "hit"
                /\ Outcome(c) = Fulfilled(tasks[c.live].v)

\* the instant the entry registered for key k expires
ExpiryOf(k) == regAt[k] + config.maxAge * MsPerSec

\* C5 as the specification states it: once a key is registered, has(key) is
\* true up to maxAge seconds after the registration and false afterwards,
\* whatever else is done with the key, unless it is set again.
C5_ExpiryAsStated ==
    \A k \in DOMAIN regAt : HasNow(Str(k)) <=> now <= ExpiryOf(k)

\* C5: Expiry.  With maxAge > 0, for a key whose last registration no clear,
\* clearAll or rejection has removed, has(key) is true at every instant up to
\* maxAge seconds after the registration and false at every later instant;
\* and a step in which only the clock moves starts no task.
C5_Expiry ==
    /\ [](\A k \in (DOMAIN regAt) \ removed : HasNow(Str(k)) <=> now <= ExpiryOf(k))
    /\ [][(now' # now /\ calls' = calls) => tasks' = tasks]_vars

C5_Witness ==
    \E k \in (DOMAIN regAt) \ removed :
        /\ config.maxAge > 0
        /\ now = ExpiryOf(k) + 1
        /\ k \in DOMAIN cacheMap
        /\ ~HasNow(Str(k))

\* C8: Uncacheable calls bypass the cache.  A call of do whose key is null
\* invokes the producer with a task of its own and returns that task's
\* promise, and neither the call nor the settling of its task changes the
\* entry table, the stored snapshot or the snapshots waiting to be written.
C8_Bypass ==
    [][/\ (calls' # calls /\ calls'[Len(calls')].key = NullKey) =>
              /\ calls'[Len(calls')].kind = "bypass"
              /\ Len(tasks') = Len(tasks) + 1
              /\ calls'[Len(calls')].task = Len(tasks')
              /\ UNCHANGED <<cacheMap, storage, pending, queue>>
       /\ \A i \in 1..Len(tasks) :
              (tasks[i].key = NullKey /\ tasks'[i] # tasks[i]) =>
                  UNCHANGED <<cacheMap, storage, pending, queue>>]_vars

C8_Witness ==
    \E i, j \in 1..Len(calls) :
        /\ i < j
        /\ calls[i].key = NullKey /\ calls[j].key = NullKey
        /\ calls[i].kind = "bypass" /\ calls[j].kind = "bypass"
        /\ calls[i].task # calls[j].task
        /\ tasks[calls[i].task].st = "fulfilled"
        /\ DOMAIN cacheMap # {}
        /\ storage.exists

\* the arguments of do() and do(undefined)
NoArgs == {<<>>, <<Undef>>}

\* C9: Default key.  With no custom key, do() and do(undefined) derive
\* DefaultKey and share the entry of one task, do({}) derives '{}' and
\* creates and hits only the entry of '{}', and has(), get() and clear()
\* without a key do what has, get and clear of DefaultKey do.
C9_DefaultKey ==
    /\ getCacheKey(Undef, <<>>) = Key(DefaultKey)
    /\ getCacheKey(Undef, <<Undef>>) = Key(DefaultKey)
    /\ getCacheKey(Undef, <<Obj(<<>>)>>) = Key("{}")
    /\ \A j \in 1..Len(calls) :
           LET c == calls[j]
           IN  /\ c.args \in NoArgs => c.key = Key(DefaultKey)
               /\ c.args = <<Obj(<<>>)>> => c.key = Key("{}")
               /\ c.task # 0 => tasks[c.task].key = c.key
               /\ c.inFlight # 0 => c.kind = "hit" /\ c.task = c.inFlight
    /\ HasOp(Heap, Undef, now, tasks) = HasOp(Heap, Str(DefaultKey), now, tasks)
    /\ GetOp(Heap, Undef, now, tasks) = GetOp(Heap, Str(DefaultKey), now, tasks)
    /\ ClearOp(Heap, Undef, tasks) = ClearOp(Heap, Str(DefaultKey), tasks)
    /\ HasNow(Undef) <=> DefaultKey \in DOMAIN cacheMap
    /\ DOMAIN ClearOp(Heap, Undef, tasks).map = (DOMAIN cacheMap) \ {DefaultKey}

C9_Witness ==
    \E i, j \in 1..Len(calls) :
        /\ calls[i].args = <<>> /\ calls[i].kind = "origin"
        /\ calls[j].args = <<Undef>> /\ calls[j].kind = "hit"
        /\ calls[j].task = calls[i].task
        /\ HasNow(Undef)
        /\ GetOp(Heap, Undef, now, tasks).task = calls[i].task

\* what get(key) resolves with when it is served from task i
Served(i) == ThenParse(CacheData(tasks[i]))

\* C12: Data isolation.  Once a caller has changed an object it received
\* from do or get, the entry the object came from still serves the value as
\* it was received, and an entry the caller made of the object with set
\* serves the value the object had when set was called.
C12_Isolation ==
    held.val # held.orig =>
        /\ Served(held.task) = Fulfilled(held.orig)
        /\ \A i \in held.given :
               tasks[i].st = "fulfilled" => Served(i) = Fulfilled(held.atSet)

\* the table without the entry of a key
Without(map, key) ==
    [k \in (DOMAIN map) \ (IF isString(key) THEN {key.s} ELSE {}) |-> map[k]]

\* C16: clear(key) removes the entry of key, of DefaultKey when no key is
\* given, and leaves every other entry as it is; when the key has no entry
\* or is not a string the table is left as it is.
C16_ClearExact ==
    \A keyArg \in ApiKeysFalsy :
        ClearOp(Heap, keyArg, tasks).map = Without(cacheMap, normalizeKey(keyArg))

\* what set returns
SetReturns(keyArg) == isString(normalizeKey(keyArg))

\* C18: set.  With a key that is not a string set returns false and changes
\* nothing; with a string key it returns true, the entry is present as set
\* returns, and once its task has settled get(key) resolves with the value
\* given to set, with no task started for a producer.
C18_Set ==
    /\ \A keyArg \in SetKeysFalsy :
           LET key == normalizeKey(keyArg)
           IN  IF isString(key)
               THEN /\ SetReturns(keyArg)
                    /\ HasOp(SetOp(Heap, key, Len(tasks) + 1, now), key, now, tasks).ret
               ELSE ~SetReturns(keyArg)
    /\ \A i \in 1..Len(tasks) :
           (/\ tasks[i].src = "set"
            /\ tasks[i].st = "fulfilled"
            /\ MapHas(cacheMap, KeyVal(tasks[i].key))
            /\ cacheMap[tasks[i].key[1]].data = i) =>
               /\ GetOp(Heap, KeyVal(tasks[i].key), now, tasks).task = i
               /\ Served(i) = Fulfilled(tasks[i].v)

-----------------------------------------------------------------------------
(* The claims about construction and the storage.                          *)

\* the handler was constructed after a reload, and it persists
Reloaded == built[Len(built)].reload /\ config.persist

\* the value whose serialization a stored pair holds
OriginalOf(data) ==
    CHOOSE v \in ResultValsReload \cup SetVals : JSONstringify(v) = Return(data)

\* the expire of a stored pair has not passed
Unexpired(it) == it.expire = 0 \/ now <= it.expire

\* C13: Persistence round-trip.  A handler constructed after a reload with
\* the identifier and medium of a written snapshot has, before it starts a
\* task of its own, has(key) true for every unexpired key of the snapshot and
\* get(key) resolving with the value that was cached; and a call of do whose
\* key has a loaded entry does not invoke the producer and resolves with the
\* value that was cached.
C13_RoundTrip ==
    Reloaded =>
        /\ (/\ \A i \in 1..Len(tasks) : tasks[i].src = "load"
            /\ storage.exists /\ ~IsBad(storage)
            /\ queue = <<>> /\ pending = <<>>) =>
               \A it \in storage.items :
                   Unexpired(it) =>
                       /\ HasNow(Str(it.key))
                       /\ Served(cacheMap[it.key].data) = Fulfilled(OriginalOf(it.data))
        /\ \A j \in 1..Len(calls) :
               LET c == calls[j]
               IN  (c.live # 0 /\ tasks[c.live].src = "load") =>
                       /\ c.kind = "hit"
                       /\ Outcome(c) = Fulfilled(OriginalOf(tasks[c.live].v))

\* C17: As clearAll returns, and as a clear that removes the last entry of
\* the table returns, the table is empty and the slot of a handler that
\* persists does not exist.
C17_EmptyRemovesSlot ==
    [][(\/ ClearAll
        \/ \E keyArg \in ApiKeysPersist :
               Clear(keyArg) /\ cacheMap # EmptyMap /\ cacheMap' = EmptyMap) =>
           /\ cacheMap' = EmptyMap
           /\ config.persist => ~storage'.exists]_vars

C17_Witness ==
    /\ config.persist
    /\ cacheMap = EmptyMap
    /\ ~storage.exists
    /\ \E i \in 1..Len(tasks) :
           /\ tasks[i].reg /\ tasks[i].st = "fulfilled"
           /\ tasks[i].key[1] \in removed

\* C19: Storage write failure is contained.  A step in which the write of a
\* snapshot is taken and the store does not get the snapshot leaves no
\* rejection unhandled and leaves the table as it is.
C19_WriteContained ==
    [][(queue # <<>> /\ queue' = Tail(queue) /\ storage' # Item(Head(queue))) =>
           /\ ~unhandled'
           /\ cacheMap' = cacheMap]_vars

\* the construction of the handler
LastBuilt == built[Len(built)]

\* the medium of the slot a construction claimed
MediaOfBuilt(b) ==
    MediaHost(IF b.opts.persistMedia = Absent THEN b.defs.persistMedia
              ELSE b.opts.persistMedia[1])

\* C20: Configuration capture.  The maxAge, debug and persistMedia of a
\* handler are those of the config it was given, and of DefaultConfig as it
\* was at the construction for what the config does not give.  Every entry
\* the handler registers expires by that maxAge, every slot that exists is
\* in the medium of the handler that wrote it, and a call of setDefaults
\* changes neither the config, the table nor the storage of the handler.
C20_ConfigCapture ==
    /\ [](/\ config.maxAge = IF LastBuilt.opts.maxAge = Absent
                              THEN LastBuilt.defs.maxAge ELSE LastBuilt.opts.maxAge[1]
          /\ config.debug = LastBuilt.defs.debug
          /\ config.persistMedia = IF LastBuilt.opts.persistMedia = Absent
                                    THEN LastBuilt.defs.persistMedia
                                    ELSE LastBuilt.opts.persistMedia[1]
          /\ \A k \in DOMAIN cacheMap :
                 tasks[cacheMap[k].data].src # "load" =>
                     cacheMap[k].expire =
                         IF config.maxAge > 0 THEN regAt[k] + config.maxAge * MsPerSec ELSE 0
          /\ \A n \in SlotNames :
                 slots[n].exists =>
                     \E i \in 1..(Len(built) - 1) :
                         /\ built[i].enabled
                         /\ n = <<MediaOfBuilt(built[i]), built[i].name.s>>)
    /\ [][(defaults' # defaults /\ built' = built) =>
              UNCHANGED <<config, cacheMap, storage, slots>>]_vars

C20_Witness ==
    /\ Len(built) > 1
    /\ config.persist
    /\ LastBuilt.defs = DefaultConfig
    /\ defaults = [maxAge |-> 1, debug |-> TRUE, persistMedia |-> "localStorage"]
    /\ config.maxAge = 0 /\ config.persistMedia = NoMedia /\ ~config.debug
    /\ now > 0
    /\ HasNow(Undef)
    /\ cacheMap[DefaultKey].expire = 0
    /\ storage.exists

\* the first construction of the process the handler lives in
ProcessStart ==
    LET marks == {i \in 1..Len(built) : built[i].reload}
    IN  IF marks = {} THEN 1 ELSE CHOOSE i \in marks : \A j \in marks : j <= i

\* the handler was constructed with an identifier another handler had claimed
IsDuplicate ==
    /\ ValidName(config.name)
    /\ \E i \in ProcessStart..(Len(built) - 1) : built[i].name = config.name

\* C14: Duplicate persist identifier.  Among the handlers constructed in one
\* process with the same identifier only the first persists, and the
\* identifier stays claimed.  A handler constructed with a claimed
\* identifier has logged the duplicate diagnostic, has loaded nothing, has
\* no slot and no snapshot waiting or written, and its calls of do are
\* registered and served from its table.
C14_DuplicatePersist ==
    /\ \A j \in ProcessStart..Len(built) :
           ValidName(built[j].name) =>
               /\ built[j].enabled <=>
                      ~ \E i \in ProcessStart..(j - 1) : built[i].name = built[j].name
               /\ Includes(registry, built[j].name)
    /\ IsDuplicate =>
           /\ "duplicate" \in log
           /\ ~config.persist
           /\ \A i \in 1..Len(tasks) : tasks[i].src # "load"
           /\ storage = NoItem /\ pending = <<>> /\ queue = <<>>
           /\ \A j \in 1..Len(calls) :
                  /\ calls[j].kind = "origin" => calls[j].hasAfter
                  /\ (calls[j].inFlight # 0 \/ calls[j].live # 0) => calls[j].kind = "hit"

C14_Witness ==
    /\ IsDuplicate
    /\ "duplicate" \in log
    /\ slots[FirstSlot].exists
    /\ \E i, j \in 1..Len(calls) :
           /\ calls[i].kind = "origin" /\ calls[j].kind = "hit"
           /\ tasks[calls[i].task].st = "fulfilled"

\* C15: Corrupt snapshot.  A handler constructed over a stored string that
\* does not load has logged the error and, before any call, has an empty
\* table.
C15_CorruptSnapshot ==
    (config.persist /\ IsBad(storage) /\ calls = <<>>) =>
        /\ "load failed" \in log
        /\ cacheMap = EmptyMap

-----------------------------------------------------------------------------
(* The claims about getCacheKey.                                           *)

\* the property names of a record in the sorted order
SortedNames(o) == SelectSeq(PropOrder, LAMBDA n : \E i \in 1..Len(o.props) : o.props[i].name = n)

\* name=transform(value) for each property in the sorted order, joined with '&'
SortedRendering(o) ==
    Join([i \in 1..Len(SortedNames(o)) |->
             SortedNames(o)[i] \o "=" \o Interp(transformKey(PropVal(o, SortedNames(o)[i])))], "&")

\* C6: Key determinism and ordering.  The key of a call does not change when
\* the properties of a record argument are given in another order, and the
\* key of a call with one flat record is its name=transform(value) segments
\* in sorted order of the names, joined with '&'.
C6_KeyOrdering ==
    /\ kPhase = "permuted" => kKey2 = kKey
    /\ (/\ kPhase # "input"
        /\ Len(kArgs) = 1
        /\ isPlainObject(kArgs[1])
        /\ Len(kArgs[1].props) > 0
        /\ kKey # NullKey) => kKey = Key(SortedRendering(kArgs[1]))

C6_Witness ==
    /\ kPhase = "permuted"
    /\ kArgs = <<Obj(<<Prop("id", Num("1")), Prop("name", Str("xx")), Prop("age", Num("1"))>>)>>
    /\ kArgs2 = <<Obj(<<Prop("age", Num("1")), Prop("name", Str("xx")), Prop("id", Num("1"))>>)>>
    /\ kKey = Key("age=$-1&id=$-1&name=xx")
    /\ kKey2 = Key("age=$-1&id=$-1&name=xx")

\* C7: Key rejection is all-or-nothing.  A call with an argument that cannot
\* be derived, at any position among any other arguments, has the key null.
C7_AllOrNothing == kPhase = "spoiled" => kKey2 = NullKey

\* C10: Type marker.  transformKey returns a string as it is and a
\* non-string primitive as '$-' and its text, and a call whose key is not
\* null gets another key when a non-string primitive among its arguments,
\* property values or array elements is replaced by the string of its text.
C10_TypeMarker ==
    /\ \A v \in PrimVals :
           transformKey(v) = IF isString(v) THEN Key(v.s) ELSE Key("$-" \o v.s)
    /\ (kPhase = "stringified" /\ kKey # NullKey) => kKey2 # kKey

C10_Witness ==
    /\ kPhase = "stringified"
    /\ kArgs = <<Obj(<<Prop("id", Num("2"))>>), Null>>
    /\ kArgs2 = <<Obj(<<Prop("id", Num("2"))>>), Str("null")>>
    /\ kKey = Key("id=$-2&$-null")
    /\ kKey2 = Key("id=$-2&null")

\* C11: Custom key override.  On a handler constructed with a key option
\* the key of a call is the fixed string for every argument tuple, or the
\* string the function returns, and it is null when the function returns a
\* value that is not a string or returns the empty string.
C11_CustomKey ==
    kPhase = "custom" =>
        IF isString(config.key)
        THEN kKey2 = Key(config.key.s)
        ELSE IF TypeOf(config.key) = "function"
        THEN LET r == ApplyKeyFn(config.key, kArgs)
             IN  kKey2 = IF isString(r) /\ r.s # "" THEN Key(r.s) ELSE NullKey
        ELSE TRUE

-----------------------------------------------------------------------------
(* The claims about persistence, expiry and the tasks in flight.           *)

\* no task is pending and no snapshot is waiting for data or for its write
Quiescent ==
    /\ \A i \in 1..Len(tasks) : tasks[i].st # "pending"
    /\ pending = <<>>
    /\ queue = <<>>

\* C21: Persistence consistency at quiescence.  On a handler that persists,
\* when no task is pending, no snapshot is waiting and no write has failed,
\* the slot holds the pairs of the table, each with its expire and its
\* serialized value, and the slot does not exist when the table is empty.
C21_QuiescentConsistency ==
    (config.persist /\ Quiescent /\ ~unhandled) =>
        storage = IF cacheMap = EmptyMap
                  THEN NoItem
                  ELSE Item(SnapData(Snapshot(cacheMap), tasks))

\* the entry of key k is in the table and its expire has passed
Expired(k) ==
    /\ k \in DOMAIN cacheMap
    /\ cacheMap[k].expire # 0
    /\ now > cacheMap[k].expire

\* C22: Lazy eviction.  A step in which only the clock moves leaves the
\* table as it is, and for a key whose entry has expired has(key) returns
\* false and get(key) returns null, and each leaves the table without that
\* entry and with every other entry as it was.
C22_LazyEviction ==
    /\ [][(now' # now /\ calls' = calls) => cacheMap' = cacheMap]_vars
    /\ [](\A keyArg \in ApiKeysAgeFalsy :
              LET key == normalizeKey(keyArg)
                  h == HasOp(Heap, keyArg, now, tasks)
                  g == GetOp(Heap, keyArg, now, tasks)
              IN  Expired(key.s) =>
                      /\ ~h.ret /\ h.h.map = Without(cacheMap, key)
                      /\ g.ret = "null" /\ g.h.map = Without(cacheMap, key))

\* C23: Proactive timer eviction.  An entry stored with maxAge > 0 whose
\* expire has passed is taken from the table at some later point, whether
\* or not its key is probed again: no expired entry stays for ever.
C23_TimerEviction ==
    Expired(DefaultKey) ~> ~Expired(DefaultKey)

\* the entry of key k is one _loadCache put in the table
Loaded(k) == k \in DOMAIN cacheMap /\ tasks[cacheMap[k].data].src = "load"

\* C24: Loaded entries obey the expiry rule.  An entry _loadCache puts in
\* the table has the expire and the data of its stored pair; while it is in
\* the table has(key) is true and get(key) is not null exactly when its
\* expire is 0 or has not passed; and a call of do whose key has a loaded
\* entry is served from it without invoking the producer when its expire is
\* 0 or has not passed, and invokes the producer when it has passed.
C24_LoadedExpiry ==
    /\ [][(built' # built /\ storage'.exists /\ ~IsBad(storage')) =>
              \A it \in storage'.items :
                  /\ cacheMap'[it.key].expire = it.expire
                  /\ CacheData(tasks'[cacheMap'[it.key].data]) = Fulfilled(it.data)]_vars
    /\ [](\A k \in DOMAIN cacheMap :
              Loaded(k) =>
                  /\ HasNow(Str(k)) <=> Unexpired(cacheMap[k])
                  /\ GetOp(Heap, Str(k), now, tasks).ret = "promise" <=> Unexpired(cacheMap[k]))
    /\ [][(calls' # calls /\ calls' # <<>>) =>
              LET c == calls'[Len(calls')]
              IN  (c.key # NullKey /\ Loaded(c.key[1])) =>
                      IF Unexpired(cacheMap[c.key[1]])
                      THEN c.kind = "hit" /\ tasks' = tasks
                           /\ Outcome(c) = Fulfilled(OriginalOf(tasks[c.task].v))
                      ELSE c.kind = "origin" /\ Len(tasks') = Len(tasks) + 1]_vars

\* C25: A rejection evicts only its own registration.  The step in which a
\* task is rejected leaves every entry that holds another task in the table
\* as it was, and the settling of a task never takes from the table an
\* entry whose task has resolved.
C25_OwnRegistration ==
    [][\A i \in 1..Len(tasks) :
           (tasks[i].st = "pending" /\ tasks'[i].st # "pending") =>
               \A k \in DOMAIN cacheMap :
                   (\/ cacheMap[k].data # i /\ tasks'[i].st = "rejected"
                    \/ tasks[cacheMap[k].data].st = "fulfilled") =>
                       /\ k \in DOMAIN cacheMap'
                       /\ cacheMap'[k] = cacheMap[k]]_vars

\* C26: do always returns a task.  Every call of do returned the promise of
\* a task, the one of the entry it was served from or the one of the
\* producer it invoked, also when the expire of the entry passes between
\* the probe of do and the probe of get; it never returned null.
C26_DoReturnsTask ==
    \A j \in 1..Len(calls) :
        /\ calls[j].kind \in {"hit", "origin", "bypass"}
        /\ calls[j].task \in 1..Len(tasks)

\* C27: getCacheKey and do agree.  A call of do whose arguments getCacheKey
\* gives a key other than null was served from the entry of that key or
\* registered its task under it, has(key) was true as do returned, and
\* clear(key) takes the entry of that key from the table; a call whose
\* arguments getCacheKey gives null registered nothing.
C27_KeyAgreement ==
    /\ \A j \in 1..Len(calls) :
           IF calls[j].key # NullKey
           THEN /\ calls[j].kind \in {"hit", "origin"}
                /\ calls[j].hasAfter
                /\ calls[j].kind = "origin" => tasks[calls[j].task].reg
           ELSE /\ calls[j].kind = "bypass"
                /\ ~tasks[calls[j].task].reg
    /\ \A args \in DoArgsFalsy :
           LET k == getCacheKey(config.key, args)
           IN  k # NullKey =>
                   ClearOp(Heap, KeyVal(k), tasks).map = Without(cacheMap, KeyVal(k))

\* C28: A resolved producer never yields a rejecting cache hit.  An entry
\* whose task has resolved holds a serialized value, a string that get
\* parses, so that get of its key resolves; and every call of do served
\* from an entry whose task has resolved resolves.
C28_ResolvedHit ==
    /\ \A k \in DOMAIN cacheMap :
           LET i == cacheMap[k].data
           IN  tasks[i].st = "fulfilled" =>
                   /\ CacheData(tasks[i]).st = "fulfilled"
                   /\ isString(CacheData(tasks[i]).v)
                   /\ Served(i).st = "fulfilled"
    /\ \A j \in 1..Len(calls) :
           (calls[j].kind = "hit" /\ tasks[calls[j].task].st = "fulfilled") =>
               Outcome(calls[j]).st = "fulfilled"

=============================================================================
